---- MODULE Spec2Model ----
(***************************************************************************)
(* A model of src/src/image.rs: the default partial-region decode          *)
(* ImageDecoder::load_rect, the Pixels iterator, the SubImage view and the *)
(* alpha-compositing fixtures of test_image_alpha_blending.                *)
(*                                                                         *)
(* Four specifications share the variables; each leaves the variables of   *)
(* the other components at their idle values:                              *)
(*   SpecRect    load_rect driven over a contract-following decoder        *)
(*   SpecPixels  pixels() and repeated Pixels::next                        *)
(*   Spec        SubImage over a wrapped image buffer                      *)
(*   SpecBlend   put_pixel / blend_pixel on the 1x1 target of the test     *)
(***************************************************************************)
EXTENDS Integers, Sequences, FiniteSets

\* ---------------------------------------------------------------- bounds
\* Largest image width / height a decoder reports, largest bytes-per-pixel.
MaxW == 2
MaxH == 2
MaxBpp == 2
\* Largest x, y, length, width argument passed to load_rect; the rectangles
\* asked for have at least one pixel.
MaxArg == 3

\* Every u32 / usize of the program stays below 2^32 within these bounds, so
\* sums and products are written without the wrap.

VARIABLES
    \* --- decoder and load_rect frame
    dW, dH, dBpp,      \* what dimensions() and colortype() report
    dRow,              \* scanlines the decoder has produced so far
    lrPc,              \* "off" | "idle" | "skip" | "copy" | "done"
    lrArgs,            \* [x, y, length, width] of the running call
    buf, tmp,          \* output buffer and scratch row (sequences of bytes)
    lrI,               \* the for loop's i
    lrResult,          \* "none" | "Ok" | "DimensionError" | "ImageEnd" | "Panic"
    \* --- Pixels iterator
    pimg,              \* [w, h, data] the image iterated
    it,                \* the Pixels struct: [x, y, width, height]
    itRet,             \* "off" (before pixels()) | "init" | "some" | "none" | "panic"
    yielded,           \* sequence of <<x, y, pixel>> yielded so far
    calls,             \* sequence of <<x, y>> passed to get_pixel
    noneSeen,          \* next() has returned None
    someAfterNone,     \* next() returned Some (or panicked) after a None
    nNext,             \* number of next() calls made
    \* --- SubImage and wrapped image buffer
    img,               \* [w, h, data] the wrapped image
    sub,               \* [xoffset, yoffset, xstride, ystride]
    last,              \* record of the last operation and its return value
    prevImg,           \* img when the last operation began
    reqBounds,         \* arguments of the latest SubImage::new / change_bounds call
    nOps               \* operations performed

rectVars == <<dW, dH, dBpp, dRow, lrPc, lrArgs, buf, tmp, lrI, lrResult>>
pixVars  == <<pimg, it, itRet, yielded, calls, noneSeen, someAfterNone, nNext>>
subVars  == <<img, sub, last, prevImg, reqBounds, nOps>>
vars     == <<rectVars, pixVars, subVars>>

\* ================================================================ helpers
Zeros(n) == [k \in 1..n |-> 0]

\* ========================================================= Decoder contract
\* Byte k (0-based) of the scanline whose 1-based row index is r: every byte
\* of the image is distinct and non-zero, so a misplaced copy is visible.
ScanByte(r, k) == (((r - 1) * dW * dBpp + k) % 255) + 1

\* row_len(): bytes of one decoded row.
row_len == dW * dBpp

Scanline(r) == [k \in 1..row_len |-> ScanByte(r, k - 1)]

\* read_scanline: the contract's rows 1..=height in order, then ImageEnd.
\* Returns [ok, row, tmp, dRow].
read_scanline(t) ==
    IF dRow < dH
    THEN [ok |-> TRUE,  row |-> dRow + 1, tmp |-> Scanline(dRow + 1), dRow |-> dRow + 1]
    ELSE [ok |-> FALSE, row |-> 0,        tmp |-> t,                  dRow |-> dRow]

\* ================================================================ load_rect
\* `if length > h || width > w || x > w || y > h`
DimensionCheckFails(x, y, length, width, w, h) ==
    length > h \/ width > w \/ x > w \/ y > h

\* &s[a..b]: panics unless a <= b <= len.
SliceOk(s, a, b) == a <= b /\ b <= Len(s)

\* slice::bytes::copy_memory(dst, src) where dst = b[toA..toB], src = t[fromA..fromB]:
\* asserts dst.len() >= src.len(), then copies src to the front of dst.
copy_memory_ok(toA, toB, fromA, fromB) == (toB - toA) >= (fromB - fromA)

copy_memory(b, toA, t, fromA, fromB) ==
    [k \in 1..Len(b) |->
        IF k > toA /\ k <= toA + (fromB - fromA) THEN t[fromA + (k - toA)] ELSE b[k]]

\* Lines 128-141: dimensions(), the check, colortype(), row_len(), the two buffers.
LoadRectCall(x, y, length, width) ==
    /\ lrPc = "idle"
    /\ lrArgs' = [x |-> x, y |-> y, length |-> length, width |-> width]
    /\ IF DimensionCheckFails(x, y, length, width, dW, dH)
       THEN /\ lrPc' = "done"
            /\ lrResult' = "DimensionError"
            /\ UNCHANGED <<buf, tmp>>
       ELSE /\ lrPc' = "skip"
            /\ lrResult' = "none"
            /\ buf' = Zeros(length * width * dBpp)
            /\ tmp' = Zeros(row_len)
    /\ UNCHANGED <<dW, dH, dBpp, dRow, lrI>>
    /\ UNCHANGED <<pixVars, subVars>>

\* Lines 143-149: one turn of the skip loop.
LoadRectSkip ==
    /\ lrPc = "skip"
    /\ LET r == read_scanline(tmp) IN
       /\ dRow' = r.dRow
       /\ tmp' = r.tmp
       /\ IF ~r.ok
          THEN lrPc' = "done" /\ lrResult' = "ImageEnd"
          ELSE IF r.row - 1 = lrArgs.y
               THEN lrPc' = "copy" /\ lrResult' = "none"
               ELSE lrPc' = "skip" /\ lrResult' = "none"
    /\ lrI' = 0
    /\ UNCHANGED <<dW, dH, dBpp, lrArgs, buf>>
    /\ UNCHANGED <<pixVars, subVars>>

\* Lines 151-161: one turn of the for loop: the two slices, copy_memory, and
\* the read of the next scanline.
LoadRectCopy ==
    /\ lrPc = "copy"
    /\ lrI < lrArgs.length
    /\ LET fromA == lrArgs.x * dBpp
           fromB == lrArgs.width * dBpp
           toA   == lrI * lrArgs.width * dBpp
           toB   == lrArgs.width * dBpp
           r     == read_scanline(tmp)
       IN IF ~SliceOk(tmp, fromA, fromB) \/ ~SliceOk(buf, toA, toB)
               \/ ~copy_memory_ok(toA, toB, fromA, fromB)
          THEN /\ lrPc' = "done" /\ lrResult' = "Panic"
               /\ UNCHANGED <<buf, tmp, dRow, lrI>>
          ELSE /\ buf' = copy_memory(buf, toA, tmp, fromA, fromB)
               /\ dRow' = r.dRow
               /\ tmp' = r.tmp
               /\ IF r.ok
                  THEN lrPc' = "copy" /\ lrResult' = "none" /\ lrI' = lrI + 1
                  ELSE lrPc' = "done" /\ lrResult' = "ImageEnd" /\ lrI' = lrI
    /\ UNCHANGED <<dW, dH, dBpp, lrArgs>>
    /\ UNCHANGED <<pixVars, subVars>>

\* Line 163: Ok(buf) once the for loop has run `length` times.
LoadRectReturn ==
    /\ lrPc = "copy"
    /\ lrI = lrArgs.length
    /\ lrPc' = "done"
    /\ lrResult' = "Ok"
    /\ UNCHANGED <<dW, dH, dBpp, dRow, lrArgs, buf, tmp, lrI>>
    /\ UNCHANGED <<pixVars, subVars>>

RectIdle ==
    /\ dW = 0 /\ dH = 0 /\ dBpp = 1 /\ dRow = 0
    /\ lrPc = "off"
    /\ lrArgs = [x |-> 0, y |-> 0, length |-> 0, width |-> 0]
    /\ buf = <<>> /\ tmp = <<>> /\ lrI = 0 /\ lrResult = "none"

\* A fresh decoder over an image of at least one pixel.
RectInit ==
    /\ dW \in 1..MaxW /\ dH \in 1..MaxH /\ dBpp \in 1..MaxBpp /\ dRow = 0
    /\ lrPc = "idle"
    /\ lrArgs = [x |-> 0, y |-> 0, length |-> 0, width |-> 0]
    /\ buf = <<>> /\ tmp = <<>> /\ lrI = 0 /\ lrResult = "none"

\* ===================================================== wrapped image buffer
\* The pixel buffer behind the GenericImage contract: a w x h grid of RGBA
\* pixels.  Indexing outside dimensions() panics (the trait's "# Panics").
Coords(w, h) == (0..(w - 1)) \X (0..(h - 1))

ZeroPixel == <<0, 0, 0, 0>>

\* ImageBuffer::new(w, h): every sample zero.
ImageBuffer_new(w, h) == [w |-> w, h |-> h, data |-> [c \in Coords(w, h) |-> ZeroPixel]]

InImage(im, x, y) == x >= 0 /\ x < im.w /\ y >= 0 /\ y < im.h

ImageBuffer_get_pixel(im, x, y) ==
    IF InImage(im, x, y) THEN [ok |-> TRUE, px |-> im.data[<<x, y>>]]
                         ELSE [ok |-> FALSE, px |-> ZeroPixel]

ImageBuffer_put_pixel(im, x, y, p) ==
    IF InImage(im, x, y)
    THEN [ok |-> TRUE, img |-> [im EXCEPT !.data[<<x, y>>] = p]]
    ELSE [ok |-> FALSE, img |-> im]

\* get_pixel_mut hands out the place of pixel (x, y); the caller's write
\* through the reference lands there.
ImageBuffer_get_pixel_mut(im, x, y) ==
    IF InImage(im, x, y) THEN [ok |-> TRUE, at |-> <<x, y>>]
                         ELSE [ok |-> FALSE, at |-> <<0, 0>>]

WriteThrough(im, ref, p) == [im EXCEPT !.data[ref.at] = p]

\* ---------------------------------------------------------- blend_pixel
\* p / q rounded to the nearest integer (q > 0, p >= 0).
RoundDiv(p, q) == (2 * p + q) \div (2 * q)

\* With a = alphaS/255 and d = alphaD/255, outAlphaF = a + d*(1-a) = N/255^2
\* where N is the integer below; the quotients are evaluated exactly.
BlendN(D, S) == 255 * S[4] + D[4] * (255 - S[4])

BlendChannel(cD, cS, D, S) ==
    IF BlendN(D, S) > 0
    THEN RoundDiv(255 * cS * S[4] + cD * D[4] * (255 - S[4]), BlendN(D, S))
    ELSE 0

\* Source-over of source S onto destination D.
Blend(D, S) ==
    << BlendChannel(D[1], S[1], D, S),
       BlendChannel(D[2], S[2], D, S),
       BlendChannel(D[3], S[3], D, S),
       RoundDiv(BlendN(D, S), 255) >>

ImageBuffer_blend_pixel(im, x, y, p) ==
    IF InImage(im, x, y)
    THEN [ok |-> TRUE, img |-> [im EXCEPT !.data[<<x, y>>] = Blend(im.data[<<x, y>>], p)]]
    ELSE [ok |-> FALSE, img |-> im]

\* An image whose pixels are pairwise distinct and opaque.
PatternImage(w, h) ==
    [w |-> w, h |-> h, data |-> [c \in Coords(w, h) |-> <<c[1] + 1, c[2] + 1, 0, 255>>]]

\* ============================================================ Pixels iterator
MaxPW == 3
MaxPH == 3
\* next() calls per traversal.
MaxNext == 12

\* GenericImage::pixels
pixels(im) == [x |-> 0, y |-> 0, width |-> im.w, height |-> im.h]

\* Lines 181-184: the wrap to the next row.
WrapX(i) == IF i.x >= i.width THEN 0 ELSE i.x
WrapY(i) == IF i.x >= i.width THEN i.y + 1 ELSE i.y

PixelsCall ==
    /\ it' = pixels(pimg)
    /\ itRet' = "init"
    /\ yielded' = <<>> /\ calls' = <<>>
    /\ noneSeen' = FALSE /\ someAfterNone' = FALSE
    /\ nNext' = 0
    /\ UNCHANGED pimg
    /\ UNCHANGED <<rectVars, subVars>>

\* Pixels::next, lines 180-196.
PixelsNext ==
    /\ itRet \in {"init", "some", "none"}
    /\ nNext < MaxNext
    /\ nNext' = nNext + 1
    /\ LET x1 == WrapX(it)
           y1 == WrapY(it)
           g  == ImageBuffer_get_pixel(pimg, x1, y1)
       IN IF y1 >= it.height
          THEN /\ it' = [it EXCEPT !.x = x1, !.y = y1]
               /\ itRet' = "none"
               /\ noneSeen' = TRUE
               /\ UNCHANGED <<yielded, calls, someAfterNone>>
          ELSE /\ calls' = Append(calls, <<x1, y1>>)
               /\ someAfterNone' = (someAfterNone \/ noneSeen)
               /\ UNCHANGED noneSeen
               /\ IF g.ok
                  THEN /\ yielded' = Append(yielded, <<x1, y1, g.px>>)
                       /\ it' = [it EXCEPT !.x = x1 + 1, !.y = y1]
                       /\ itRet' = "some"
                  ELSE /\ it' = [it EXCEPT !.x = x1, !.y = y1]
                       /\ itRet' = "panic"
                       /\ UNCHANGED yielded
    /\ UNCHANGED pimg
    /\ UNCHANGED <<rectVars, subVars>>

PixIdle ==
    /\ pimg = ImageBuffer_new(0, 0)
    /\ it = [x |-> 0, y |-> 0, width |-> 0, height |-> 0]
    /\ itRet = "off"
    /\ yielded = <<>> /\ calls = <<>>
    /\ noneSeen = FALSE /\ someAfterNone = FALSE /\ nNext = 0

PixInit ==
    /\ \E w \in 0..MaxPW, h \in 0..MaxPH : pimg = PatternImage(w, h)
    /\ it = [x |-> 0, y |-> 0, width |-> 0, height |-> 0]
    /\ itRet = "off"
    /\ yielded = <<>> /\ calls = <<>>
    /\ noneSeen = FALSE /\ someAfterNone = FALSE /\ nNext = 0

\* =================================================================== SubImage
\* Offsets of a view range over 0..MaxOff, strides over 0..MaxStride.
MaxOff == 1
MaxStride == 2
\* Operations performed through one view (change_bounds not counted).
MaxOps == 1

\* The wrapped image is just large enough that the largest window at offset 0
\* fits and windows at larger offsets reach past its edge.
ImgW == MaxStride
ImgH == MaxStride

\* Pixels handed to put_pixel, blend_pixel and written through get_pixel_mut.
PutPixels == {<<9, 9, 9, 255>>}
BlendPixels == {<<255, 0, 0, 127>>}
MutPixels == {<<7, 7, 7, 0>>}

\* SubImage::new
SubImage_new(x, y, width, height) ==
    [xoffset |-> x, yoffset |-> y, xstride |-> width, ystride |-> height]

\* SubImage::change_bounds
change_bounds(v, x, y, width, height) ==
    [v EXCEPT !.xoffset = x, !.yoffset = y, !.xstride = width, !.ystride = height]

\* impl GenericImage for SubImage
SubImage_dimensions(v) == <<v.xstride, v.ystride>>

SubImage_get_pixel(v, im, x, y) ==
    ImageBuffer_get_pixel(im, x + v.xoffset, y + v.yoffset)

\* put_pixel forwarded without the view's offset.
SubImage_put_pixel_NoOffset(v, im, x, y, p) == ImageBuffer_put_pixel(im, x, y, p)

SubImage_put_pixel(v, im, x, y, p) ==
    ImageBuffer_put_pixel(im, x + v.xoffset, y + v.yoffset, p)

SubImage_blend_pixel(v, im, x, y, p) ==
    ImageBuffer_blend_pixel(im, x + v.xoffset, y + v.yoffset, p)

SubImage_get_pixel_mut(v, im, x, y) ==
    ImageBuffer_get_pixel_mut(im, x + v.xoffset, y + v.yoffset)

\* SubImage::to_image: the k-th turn of `for y in 0..ystride { for x in 0..xstride`
\* visits x = k % xstride, y = k / xstride.  A panic of get_pixel or put_pixel
\* unwinds the call.
RECURSIVE to_image_loop(_, _, _, _)
to_image_loop(v, im, out, k) ==
    IF k >= v.xstride * v.ystride
    THEN [ok |-> TRUE, img |-> out]
    ELSE LET x == k % v.xstride
             y == k \div v.xstride
             g == SubImage_get_pixel(v, im, x, y)
             w == ImageBuffer_put_pixel(out, x, y, g.px)
         IN IF g.ok /\ w.ok
            THEN to_image_loop(v, im, w.img, k + 1)
            ELSE [ok |-> FALSE, img |-> out]

\* to_image allocating its buffer as (ystride, xstride).
to_image_SwappedDims(v, im) ==
    to_image_loop(v, im, ImageBuffer_new(v.ystride, v.xstride), 0)

to_image(v, im) == to_image_loop(v, im, ImageBuffer_new(v.xstride, v.ystride), 0)

NoImage == ImageBuffer_new(0, 0)

Op(op, i, j, p, ok, ret, out) ==
    [op |-> op, i |-> i, j |-> j, p |-> p, ok |-> ok, ret |-> ret, out |-> out]

\* What the caller last asked the window to be.
Req(via, x, y, width, height) ==
    [via |-> via, x |-> x, y |-> y, width |-> width, height |-> height]

NoOp == Op("new", 0, 0, ZeroPixel, TRUE, ZeroPixel, NoImage)

\* Local coordinates inside the view's dimensions(): the GenericImage
\* precondition on every indexing call.
Local(v) == Coords(SubImage_dimensions(v)[1], SubImage_dimensions(v)[2])

SubChangeBounds(x, y, width, height) ==
    /\ sub' = change_bounds(sub, x, y, width, height)
    /\ nOps < MaxOps
    /\ last' = Op("change_bounds", 0, 0, ZeroPixel, TRUE, ZeroPixel, NoImage)
    /\ prevImg' = img
    /\ reqBounds' = Req("change_bounds", x, y, width, height)
    /\ UNCHANGED <<img, nOps>>
    /\ UNCHANGED <<rectVars, pixVars>>

SubGetPixel(i, j) ==
    /\ nOps < MaxOps
    /\ <<i, j>> \in Local(sub)
    /\ LET g == SubImage_get_pixel(sub, img, i, j) IN
       last' = Op("get_pixel", i, j, ZeroPixel, g.ok, g.px, NoImage)
    /\ prevImg' = img /\ nOps' = nOps + 1
    /\ UNCHANGED <<img, sub, reqBounds>>
    /\ UNCHANGED <<rectVars, pixVars>>

SubPutPixel(i, j, p) ==
    /\ nOps < MaxOps
    /\ <<i, j>> \in Local(sub)
    /\ LET r == SubImage_put_pixel(sub, img, i, j, p) IN
       /\ img' = r.img
       /\ last' = Op("put_pixel", i, j, p, r.ok, ZeroPixel, NoImage)
    /\ prevImg' = img /\ nOps' = nOps + 1
    /\ UNCHANGED <<sub, reqBounds>>
    /\ UNCHANGED <<rectVars, pixVars>>

SubBlendPixel(i, j, p) ==
    /\ nOps < MaxOps
    /\ <<i, j>> \in Local(sub)
    /\ LET r == SubImage_blend_pixel(sub, img, i, j, p) IN
       /\ img' = r.img
       /\ last' = Op("blend_pixel", i, j, p, r.ok, ZeroPixel, NoImage)
    /\ prevImg' = img /\ nOps' = nOps + 1
    /\ UNCHANGED <<sub, reqBounds>>
    /\ UNCHANGED <<rectVars, pixVars>>

\* get_pixel_mut followed by the caller's `*r = p`.
SubGetPixelMut(i, j, p) ==
    /\ nOps < MaxOps
    /\ <<i, j>> \in Local(sub)
    /\ LET r == SubImage_get_pixel_mut(sub, img, i, j) IN
       /\ img' = IF r.ok THEN WriteThrough(img, r, p) ELSE img
       /\ last' = Op("get_pixel_mut", i, j, p, r.ok, ZeroPixel, NoImage)
    /\ prevImg' = img /\ nOps' = nOps + 1
    /\ UNCHANGED <<sub, reqBounds>>
    /\ UNCHANGED <<rectVars, pixVars>>

SubToImage ==
    /\ nOps < MaxOps
    /\ LET r == to_image(sub, img) IN
       last' = Op("to_image", 0, 0, ZeroPixel, r.ok, ZeroPixel, r.img)
    /\ prevImg' = img /\ nOps' = nOps + 1
    /\ UNCHANGED <<img, sub, reqBounds>>
    /\ UNCHANGED <<rectVars, pixVars>>

SubIdle ==
    /\ img = NoImage /\ prevImg = NoImage
    /\ sub = SubImage_new(0, 0, 0, 0) /\ reqBounds = Req("new", 0, 0, 0, 0)
    /\ last = NoOp /\ nOps = 0

SubInit ==
    /\ img = PatternImage(ImgW, ImgH) /\ prevImg = img
    /\ \E x \in 0..MaxOff, y \in 0..MaxOff, w \in 0..MaxStride, h \in 0..MaxStride :
          sub = SubImage_new(x, y, w, h) /\ reqBounds = Req("new", x, y, w, h)
    /\ last = NoOp /\ nOps = 0

\* ===================================================== the 1x1 blending target
\* Operations on `target` in one run of the test.
MaxBlendOps == 3

\* The pixels of test_image_alpha_blending, and destinations / sources with
\* alpha 0.
FixRed       == <<255, 0, 0, 255>>
FixGreen     == <<0, 255, 0, 255>>
FixRedHalf   == <<255, 0, 0, 127>>
FixGreenHalf == <<0, 255, 0, 127>>
FixExpect1   == <<0, 255, 0, 255>>
FixExpect2   == <<127, 127, 0, 255>>
FixExpect3   == <<169, 85, 0, 190>>

TargetPixels ==
    {FixRed, FixGreen, FixRedHalf, FixGreenHalf,
     <<10, 20, 30, 0>>, <<200, 100, 50, 0>>, <<10, 20, 30, 1>>}

\* target.put_pixel(0, 0, p)
TargetPut(p) ==
    /\ nOps < MaxBlendOps
    /\ LET r == ImageBuffer_put_pixel(img, 0, 0, p) IN
       /\ img' = r.img
       /\ last' = Op("put_pixel", 0, 0, p, r.ok, ZeroPixel, NoImage)
    /\ prevImg' = img /\ nOps' = nOps + 1
    /\ UNCHANGED <<sub, reqBounds>>
    /\ UNCHANGED <<rectVars, pixVars>>

\* target.blend_pixel(0, 0, p)
TargetBlend(p) ==
    /\ nOps < MaxBlendOps
    /\ LET r == ImageBuffer_blend_pixel(img, 0, 0, p) IN
       /\ img' = r.img
       /\ last' = Op("blend_pixel", 0, 0, p, r.ok, ZeroPixel, NoImage)
    /\ prevImg' = img /\ nOps' = nOps + 1
    /\ UNCHANGED <<sub, reqBounds>>
    /\ UNCHANGED <<rectVars, pixVars>>

\* let mut target = ImageBuffer::new(1, 1)
BlendInit ==
    /\ img = ImageBuffer_new(1, 1) /\ prevImg = img
    /\ sub = SubImage_new(0, 0, 0, 0) /\ reqBounds = Req("new", 0, 0, 0, 0)
    /\ last = NoOp /\ nOps = 0

\* ============================================================ specifications
Init == RectIdle /\ PixIdle /\ SubInit
Next ==
    \/ \E x \in 0..MaxOff, y \in 0..MaxOff, w \in 0..MaxStride, h \in 0..MaxStride :
          SubChangeBounds(x, y, w, h)
    \/ \E i \in 0..MaxStride, j \in 0..MaxStride : SubGetPixel(i, j)
    \/ \E i \in 0..MaxStride, j \in 0..MaxStride, p \in PutPixels : SubPutPixel(i, j, p)
    \/ \E i \in 0..MaxStride, j \in 0..MaxStride, p \in BlendPixels : SubBlendPixel(i, j, p)
    \/ \E i \in 0..MaxStride, j \in 0..MaxStride, p \in MutPixels : SubGetPixelMut(i, j, p)
    \/ SubToImage
Spec == Init /\ [][Next]_vars

InitRect == RectInit /\ PixIdle /\ SubIdle
NextRect ==
    \/ \E x \in 0..MaxArg, y \in 0..MaxArg, length \in 1..MaxArg, width \in 1..MaxArg :
          LoadRectCall(x, y, length, width)
    \/ LoadRectSkip
    \/ LoadRectCopy
    \/ LoadRectReturn
SpecRect == InitRect /\ [][NextRect]_vars

InitPixels == RectIdle /\ PixInit /\ SubIdle
NextPixels ==
    \/ PixelsCall
    \/ PixelsNext
SpecPixels == InitPixels /\ [][NextPixels]_vars

InitBlend == RectIdle /\ PixIdle /\ BlendInit
NextBlend ==
    \/ \E p \in TargetPixels : TargetPut(p)
    \/ \E p \in TargetPixels : TargetBlend(p)
SpecBlend == InitBlend /\ [][NextBlend]_vars

\* ==================================================================== claims
\* ------------------------------------------------------------------ load_rect
\* The requested rectangle lies wholly inside the image.
InBounds == lrArgs.x + lrArgs.width <= dW /\ lrArgs.y + lrArgs.length <= dH

RowBytes == lrArgs.width * dBpp

\* C1: a load_rect call on an in-bounds rectangle, over a decoder that follows
\* the read_scanline contract, ends with Ok and a buffer of exactly
\* length*width*bpp bytes.
C1_ReturnsWholeBuffer ==
    (lrPc = "done" /\ InBounds) =>
        (lrResult = "Ok" /\ Len(buf) = lrArgs.length * lrArgs.width * dBpp)

\* C2: in a buffer load_rect returns for an in-bounds rectangle, row i holds
\* the width*bpp bytes found at byte offset x*bpp of the scanline with 0-based
\* index y+i (1-based row index y+i+1).
C2_RowsAreWindows ==
    (lrPc = "done" /\ lrResult = "Ok" /\ InBounds) =>
        \A i \in 0..(lrArgs.length - 1) : \A k \in 0..(RowBytes - 1) :
            /\ i * RowBytes + k + 1 \in DOMAIN buf
            /\ buf[i * RowBytes + k + 1] = ScanByte(lrArgs.y + i + 1, lrArgs.x * dBpp + k)

\* C3: a rectangle that is not wholly inside the image (x+width > w or
\* y+length > h) makes load_rect fail with DimensionError, before any scanline
\* is decoded and without a buffer.
C3_OutOfBoundsIsDimensionError ==
    (lrPc = "done" /\ ~InBounds) => (lrResult = "DimensionError" /\ dRow = 0)

\* C10: on an in-bounds rectangle and a fresh decoder, load_rect never asks
\* for a scanline past the image's last one, so it never ends with ImageEnd;
\* and when its skip loop ends the scratch row holds scanline y+1.
C10_NeverImageEnd ==
    InBounds =>
        /\ lrResult # "ImageEnd"
        /\ (lrPc = "copy" /\ lrI = 0) => (dRow = lrArgs.y + 1 /\ tmp = Scanline(lrArgs.y + 1))

\* --------------------------------------------------------------------- Pixels
\* The row-major enumeration of an image: x fastest, from (0,0), each item
\* with the pixel get_pixel returns there.
RowMajor(im) ==
    [k \in 1..(im.w * im.h) |->
        <<(k - 1) % im.w, (k - 1) \div im.w, im.data[<<(k - 1) % im.w, (k - 1) \div im.w>>]>>]

IsPrefix(a, b) == Len(a) <= Len(b) /\ \A k \in 1..Len(a) : a[k] = b[k]

\* C4: for any width W and height H, W = 0 and H = 0 included, the calls of
\* next() yield the row-major enumeration of the image, W*H items, and then
\* None.
C4_RowMajorTraversal ==
    (itRet # "off") =>
        /\ itRet # "panic"
        /\ IsPrefix(yielded, RowMajor(pimg))
        /\ noneSeen => yielded = RowMajor(pimg)

\* C5: every value next() yields, and every coordinate pair it passes to
\* get_pixel, has x < width and y < height; and once next() has returned None
\* it returns None ever after.
C5_YieldsInBounds ==
    /\ \A k \in 1..Len(yielded) : yielded[k][1] < it.width /\ yielded[k][2] < it.height
    /\ \A k \in 1..Len(calls) : calls[k][1] < it.width /\ calls[k][2] < it.height
    /\ ~someAfterNone

\* ------------------------------------------------------------------- SubImage
IndexOps == {"get_pixel", "put_pixel", "blend_pixel", "get_pixel_mut"}

\* The wrapped image's pixel an indexing call at local (last.i, last.j) is about.
TargetX == reqBounds.x + last.i
TargetY == reqBounds.y + last.j

\* What the operation must have left at the target pixel.
Written(old) ==
    CASE last.op = "put_pixel"     -> last.p
      [] last.op = "get_pixel_mut" -> last.p
      [] last.op = "blend_pixel"   -> Blend(old, last.p)
      [] OTHER                     -> old

\* C6: with (x, y, width, height) the bounds most recently given to
\* SubImage::new or change_bounds, an indexing call on the view at local
\* (i, j), i < width and j < height, is the same call on the wrapped image at
\* (x+i, y+j): get_pixel returns that pixel; put_pixel, blend_pixel and a
\* write through get_pixel_mut change that pixel and no other; the call
\* panics exactly when (x+i, y+j) is outside the wrapped image, changing
\* nothing; and the view's offset and size stay as given.
C6_ViewForwardsWithOffset ==
    (last.op \in IndexOps /\ last.i < reqBounds.width /\ last.j < reqBounds.height) =>
        /\ sub = SubImage_new(reqBounds.x, reqBounds.y, reqBounds.width, reqBounds.height)
        /\ img.w = prevImg.w /\ img.h = prevImg.h
        /\ last.ok = InImage(prevImg, TargetX, TargetY)
        /\ ~last.ok => img = prevImg
        /\ last.ok =>
            /\ last.op = "get_pixel" => last.ret = prevImg.data[<<TargetX, TargetY>>]
            /\ img.data[<<TargetX, TargetY>>] = Written(prevImg.data[<<TargetX, TargetY>>])
            /\ \A c \in Coords(prevImg.w, prevImg.h) :
                  c # <<TargetX, TargetY>> => img.data[c] = prevImg.data[c]

\* A blend through a view that change_bounds moved to a non-zero offset, at a
\* local coordinate other than (0, 0), which changed the wrapped image.
C6_Witness ==
    /\ reqBounds.via = "change_bounds"
    /\ last.op = "blend_pixel" /\ last.ok
    /\ reqBounds.x = 1 /\ last.j = 1
    /\ img # prevImg

\* The window lies inside the wrapped image.
WindowInImage ==
    \A c \in Coords(reqBounds.width, reqBounds.height) :
        InImage(prevImg, reqBounds.x + c[1], reqBounds.y + c[2])

\* C7: to_image() on a view whose window lies inside the wrapped image returns
\* a buffer of dimensions (width, height) whose pixel (i, j) is the wrapped
\* image's pixel (x+i, y+j); the wrapped image and the view's bounds are left
\* as they were.
C7_ToImageCopiesWindow ==
    (last.op = "to_image") =>
        /\ last.ok = WindowInImage
        /\ img = prevImg
        /\ sub = SubImage_new(reqBounds.x, reqBounds.y, reqBounds.width, reqBounds.height)
        /\ last.ok =>
            /\ last.out.w = reqBounds.width /\ last.out.h = reqBounds.height
            /\ DOMAIN last.out.data = Coords(reqBounds.width, reqBounds.height)
            /\ \A c \in Coords(reqBounds.width, reqBounds.height) :
                  last.out.data[c] = prevImg.data[<<reqBounds.x + c[1], reqBounds.y + c[2]>>]

\* to_image() returned the copy of a two-pixel window at a non-zero offset.
C7_Witness ==
    /\ last.op = "to_image" /\ last.ok
    /\ reqBounds.y = 1 /\ reqBounds.width = 2 /\ reqBounds.height = 1
    /\ last.out.data[<<1, 0>>] = prevImg.data[<<1, 1>>]

\* ------------------------------------------------------------------- blending
Blended(D, S) ==
    last.op = "blend_pixel" /\ prevImg.data[<<0, 0>>] = D /\ last.p = S

\* C8: the source-over operator reproduces the three fixtures of
\* test_image_alpha_blending exactly: green over opaque red, half-transparent
\* red over opaque green, half-transparent red over half-transparent green.
C8_FixturesReproduced ==
    /\ Blended(FixRed, FixGreen)         => img.data[<<0, 0>>] = FixExpect1
    /\ Blended(FixGreen, FixRedHalf)     => img.data[<<0, 0>>] = FixExpect2
    /\ Blended(FixGreenHalf, FixRedHalf) => img.data[<<0, 0>>] = FixExpect3

\* C9: blending a source of alpha 0 leaves the destination pixel, colour and
\* alpha, as it was, whatever the destination's alpha.
C9_TransparentSourceIsIdentity ==
    (last.op = "blend_pixel" /\ last.p[4] = 0) => img = prevImg

====
